---- MODULE Spec2Model ----
(***************************************************************************)
(* A model of tmxloader (src/tmxloader/loader.py, src/tmxloader/utils.py): *)
(* the load of a tile map document by TileMap.init_from_node, the property *)
(* bag of an Element and the global-id codec decode_gid.                   *)
(*                                                                         *)
(* The library is Python 2 code (ifilter, imap, xrange, iteritems), so the *)
(* model follows Python 2 semantics; in particular a StopIteration raised  *)
(* inside a generator expression ends that generator silently.             *)
(*                                                                         *)
(* Representation.  An unsigned 32-bit word (a raw gid) is the set of the  *)
(* positions of its 1 bits, a subset of 0..31: & is intersection, | is     *)
(* union and & ~m is set difference.  A Python value that may be None is a *)
(* sequence of length 0 (None) or 1.  The tile registry TileMap.tiles is a *)
(* function from gids to tile records.                                     *)
(***************************************************************************)
EXTENDS Integers, Sequences, FiniteSets, TLC

VARIABLES
    doc,                \* tags of the root node's children, in document order
    load_unused_tiles,  \* TileMap.load_unused_tiles
    pc,                 \* "load" | "done" | "failed"; "idle" where no load runs
    err,                \* the exception that ended the load ("" = none)
    tilesets,           \* TileMap.tilesets
    tiles,              \* TileMap.tiles
    layers,             \* TileMap.layers
    walked,             \* number of children the loop at loader.py:573 has visited
    imaged,             \* number of tilesets the loop at loader.py:598 has visited
    log,                \* history: resolver calls, and registry additions of load_images
    properties,         \* SpecProps: Element.properties of one tile element
    propOp,             \* SpecProps history: the last operation, the names it set out
                        \* to set, the bag it found and the exception it raised
    gidArgs,            \* SpecGid: the id and the flags a raw gid is made of
    gidOut,             \* SpecGid: None, or what decode_gid returned for that raw gid
    lookupGid,          \* SpecLookup: None, or the gid looked up
    lookupResult,       \* SpecLookup: what get_tileset_by_gid returned
    invert_y,           \* SpecPos: TileMap.invert_y
    mapAttrs,           \* SpecPos: TileMap.width, height, tilewidth, tileheight
    posOut              \* SpecPos: None, or the node last constructed, the
                        \* position it stored and the exception it raised

loadVars == <<doc, load_unused_tiles, pc, err, tilesets, tiles, layers, walked,
              imaged, log>>
bagVars == <<properties, propOp>>
gidVars == <<gidArgs, gidOut>>
lookupVars == <<lookupGid, lookupResult>>
posVars == <<invert_y, mapAttrs, posOut>>
vars == <<loadVars, bagVars, gidVars, lookupVars, posVars>>

(***************************************************************************)
(* Bounds of the model.                                                    *)
(***************************************************************************)
MaxNodes == 2       \* children of the root node
MaxSample == 7      \* ids sampled at each end of the 29-bit range (SpecGid)
MaxTilesets == 3    \* tilesets of the list that SpecLookup searches
MaxLookupGid == 4   \* gids that SpecLookup looks up
MaxCoord == 11      \* greatest y or offsety a node declares (SpecPos)
MaxMapHeight == 2   \* greatest height, in tiles, of the map (SpecPos)
MaxFrames == 2      \* frame nodes of an animation node (SpecAnim)

FirstGids == {1, 2, 3}      \* firstgid of a tileset node
TileWidths == {1, 2}        \* tilewidth of a tileset node
TileHeights == {3}          \* tileheight of a tileset node
LocalIds == {0}             \* id of a tile node
LayerWidths == {1, 2}       \* width of a layer node
LayerHeights == {1}         \* height of a layer node
PayloadLengths == {0, 1, 2} \* raw gids in the payload of a data node
ObjectCounts == {0, 1}      \* object nodes of an objectgroup node
MapTileHeights == {3, 4}    \* tileheight of the map node (SpecPos)

(***************************************************************************)
(* utils.py: the global-id codec.                                          *)
(***************************************************************************)
FLIPPED_VERTICALLY_FLAG == {30}
FLIPPED_DIAGONALLY_FLAG == {29}
FLIPPED_HORIZONTALLY_FLAG == {31}

RECURSIVE Pow2(_)
Pow2(n) == IF n = 0 THEN 1 ELSE 2 * Pow2(n - 1)

\* the number a word stands for (the word must be below 2^31 to fit TLC's integers)
RECURSIVE ToNat(_)
ToNat(w) == IF w = {} THEN 0
            ELSE LET b == CHOOSE x \in w : \A y \in w : y <= x
                 IN Pow2(b) + ToNat(w \ {b})

\* the word of a number
RECURSIVE BitsFrom(_, _)
BitsFrom(n, pos) == IF n = 0 THEN {}
                    ELSE (IF n % 2 = 1 THEN {pos} ELSE {}) \cup BitsFrom(n \div 2, pos + 1)
ToWord(n) == BitsFrom(n, 0)

decode_gid_mask_one(gid) ==
    [gid |-> ToNat(gid \ (FLIPPED_HORIZONTALLY_FLAG \cup FLIPPED_VERTICALLY_FLAG)),
     flags |-> <<(gid \cap FLIPPED_HORIZONTALLY_FLAG) = FLIPPED_HORIZONTALLY_FLAG,
                 (gid \cap FLIPPED_VERTICALLY_FLAG) = FLIPPED_VERTICALLY_FLAG,
                 (gid \cap FLIPPED_DIAGONALLY_FLAG) = FLIPPED_DIAGONALLY_FLAG>>]

\* decode_gid: TextureFlags(horizontally, vertically, diagonally), then the masked id
decode_gid(gid) ==
    [gid |-> ToNat(gid \ (FLIPPED_HORIZONTALLY_FLAG \cup FLIPPED_VERTICALLY_FLAG
                          \cup FLIPPED_DIAGONALLY_FLAG)),
     flags |-> <<(gid \cap FLIPPED_HORIZONTALLY_FLAG) = FLIPPED_HORIZONTALLY_FLAG,
                 (gid \cap FLIPPED_VERTICALLY_FLAG) = FLIPPED_VERTICALLY_FLAG,
                 (gid \cap FLIPPED_DIAGONALLY_FLAG) = FLIPPED_DIAGONALLY_FLAG>>]

(***************************************************************************)
(* loader.py: the tile registry and the tilesets.                          *)
(*                                                                         *)
(* A world is what a constructor reads and writes of the map while it      *)
(* runs: [tiles, tilesets, err]; err # "" means an exception is in flight  *)
(* and the remaining statements of the handler are skipped.                *)
(***************************************************************************)
None == <<>>
Some(x) == <<x>>

World(ti, ts, e) == [tiles |-> ti, tilesets |-> ts, err |-> e]
Raise(w, e) == [w EXCEPT !.err = e]

get_tileset_by_gid_forward(tss, gid) ==
    LET hits == {i \in 1..Len(tss) : gid >= tss[i].firstgid}
    IN IF hits = {} THEN 0 ELSE CHOOSE i \in hits : \A j \in hits : i <= j

RECURSIVE ReversedScan(_, _, _)
ReversedScan(tss, gid, i) ==
    IF i = 0 THEN 0
    ELSE IF gid >= tss[i].firstgid THEN i
    ELSE ReversedScan(tss, gid, i - 1)

\* TileMap.get_tileset_by_gid: the index of the tileset returned, 0 for None
get_tileset_by_gid(tss, gid) == ReversedScan(tss, gid, Len(tss))

\* TileElement.__init__(None, parent, gid=.., width=.., height=..): a placeholder
PlaceholderTile(t, gid, width, height) ==
    [gid |-> gid, id |-> None, width |-> width, height |-> height, source |-> None,
     parent |-> t, declared |-> FALSE, uvs |-> None, image |-> None,
     properties |-> <<>>]

\* TileSet.add_tile, after its TileElement is constructed: register, track maxgid
TileSet_add_tile(w, t, tile) ==
    [w EXCEPT !.tiles = (tile.gid :> tile) @@ w.tiles,
              !.tilesets[t].maxgid = IF tile.gid > @ THEN tile.gid ELSE @]

add_placeholder_swapped(w, t, gid) ==
    TileSet_add_tile(w, t, PlaceholderTile(t, gid, w.tilesets[t].tileheight,
                                           w.tilesets[t].tilewidth))

\* tileset.add_tile(None, gid=gid, width=tileset.tilewidth, height=tileset.tileheight)
add_placeholder(w, t, gid) ==
    TileSet_add_tile(w, t, PlaceholderTile(t, gid, w.tilesets[t].tilewidth,
                                           w.tilesets[t].tileheight))

(***************************************************************************)
(* loader.py: the property bag of an Element.  A bag is a function from    *)
(* the names set to their values; a value is a record so that strings and  *)
(* frame tuples can be compared.                                           *)
(***************************************************************************)
StrValue(s) == [kind |-> "str", str |-> s, frames |-> <<>>]
TupleValue(fs) == [kind |-> "tuple", str |-> "", frames |-> fs]

\* Element.set_property: no entity of the library defines a prepare_prop_ hook
Element_set_property(props, name, value) == (name :> value) @@ props

RECURSIVE SetPropertiesFrom(_, _, _)
SetPropertiesFrom(props, children, i) ==
    IF i > Len(children) THEN [properties |-> props, err |-> ""]
    ELSE IF children[i].name \in DOMAIN props
         THEN [properties |-> props, err |-> "DuplicateProperty"]
    ELSE SetPropertiesFrom(Element_set_property(props, children[i].name,
                                                StrValue(children[i].value)),
                           children, i + 1)

\* Element.set_properties_from_node: properties_node is None or the list of
\* its property children
Element_set_properties_from_node(props, properties_node) ==
    IF properties_node = None THEN [properties |-> props, err |-> ""]
    ELSE SetPropertiesFrom(props, properties_node[1], 1)

(***************************************************************************)
(* loader.py: TileElement.                                                 *)
(***************************************************************************)
AnimationFrame_init_params == <<"gid", "duration", "root">>

\* AnimationFrame(*args): Python raises TypeError unless every parameter of
\* __init__ (utils.py:16) gets an argument
AnimationFrame(args) ==
    IF Len(args) = Len(AnimationFrame_init_params)
    THEN [err |-> "", frame |-> Some([gid |-> args[1], duration |-> args[2]])]
    ELSE [err |-> "TypeError", frame |-> None]

\* the loop of TileElement.handle_animation over the frame nodes from i on;
\* s = [w, frames]
RECURSIVE AnimationLoop(_, _, _, _)
AnimationLoop(s, t, frame_nodes, i) ==
    IF i > Len(frame_nodes) \/ s.w.err # "" THEN s
    ELSE LET gid == s.w.tilesets[t].firstgid + frame_nodes[i].tileid
             w1 == IF gid \notin DOMAIN s.w.tiles THEN add_placeholder(s.w, t, gid)
                   ELSE s.w
             made == AnimationFrame(<<gid, frame_nodes[i].duration>>)
         IN IF made.err # "" THEN [w |-> Raise(w1, made.err), frames |-> s.frames]
            ELSE AnimationLoop([w |-> w1, frames |-> s.frames \o made.frame],
                               t, frame_nodes, i + 1)

\* TileElement.handle_animation: [w, properties]
TileElement_handle_animation(w, t, props, frame_nodes) ==
    LET s == AnimationLoop([w |-> w, frames |-> <<>>], t, frame_nodes, 1)
    IN IF s.w.err # "" THEN [w |-> s.w, properties |-> props]
       ELSE [w |-> s.w,
             properties |-> Element_set_property(props, "animation_frames",
                                                 TupleValue(s.frames))]

\* TileElement.__init__(node, parent) with a node, then TileSet.add_tile's
\* registration.  node = [id, properties, animation, image]
TileSet_add_tile_node(w, t, node) ==
    LET gid == w.tilesets[t].firstgid + node.id          \* prepare_attr_id
        bag == Element_set_properties_from_node(<<>>, node.properties)
        anim == IF node.animation = None
                THEN [w |-> w, properties |-> bag.properties]
                ELSE TileElement_handle_animation(w, t, bag.properties,
                                                  node.animation[1])
        tile == [gid |-> gid, id |-> Some(node.id),
                 width |-> IF node.image = None THEN w.tilesets[t].tilewidth
                           ELSE node.image[1].width,
                 height |-> IF node.image = None THEN w.tilesets[t].tileheight
                            ELSE node.image[1].height,
                 source |-> IF node.image = None THEN None
                            ELSE Some(node.image[1].source),
                 parent |-> t, declared |-> TRUE, uvs |-> None, image |-> None,
                 properties |-> anim.properties]
    IN IF bag.err # "" THEN Raise(w, bag.err)
       ELSE IF anim.w.err # "" THEN anim.w
       ELSE TileSet_add_tile(anim.w, t, tile)

RECURSIVE AddTileNodes(_, _, _, _)
AddTileNodes(w, t, tile_nodes, i) ==
    IF i > Len(tile_nodes) \/ w.err # "" THEN w
    ELSE AddTileNodes(TileSet_add_tile_node(w, t, tile_nodes[i]), t, tile_nodes, i + 1)

(***************************************************************************)
(* loader.py: TileSet.  node = [firstgid, tilewidth, tileheight, image,    *)
(* tiles]; image is None or Some([source, width, height]).  The tilesets   *)
(* of the model are embedded ones (no source attribute on the tileset      *)
(* node), without margin or spacing attributes.                            *)
(***************************************************************************)
\* TileSet.__init__ and init_from_node.  TileMap.add_tileset appends the
\* tileset once it is constructed; the constructor itself never reads
\* TileMap.tilesets, so the world holds it at its final index t meanwhile.
TileSet_new(w, node) ==
    LET t == Len(w.tilesets) + 1
        fresh == [firstgid |-> node.firstgid,
                  tilewidth |-> node.tilewidth, tileheight |-> node.tileheight,
                  margin |-> 0, spacing |-> 0, maxgid |-> 0,
                  source |-> IF node.image = None THEN None
                             ELSE Some(node.image[1].source),
                  width |-> IF node.image = None THEN 0 ELSE node.image[1].width,
                  height |-> IF node.image = None THEN 0 ELSE node.image[1].height]
    IN AddTileNodes([w EXCEPT !.tilesets = Append(@, fresh)], t, node.tiles, 1)

\* TileSet.is_images_collection
is_images_collection(tileset) == tileset.source = None

(***************************************************************************)
(* loader.py: TileLayer.  node = [width, height, encoding, compression,    *)
(* gids, tail]: the payload of the data node holds the raw gids `gids`,    *)
(* and as a byte string (base64) `tail` more bytes after the last whole    *)
(* 4-byte word.  The base64 text and the zlib stream are well formed.      *)
(***************************************************************************)
\* unpack_struct: struct.unpack('<%dI' % (len / 4), data) wants exactly
\* 4 * (len / 4) bytes
unpack_struct(payload) ==
    IF payload.tail # 0 THEN [err |-> "struct.error", data |-> <<>>]
    ELSE [err |-> "", data |-> payload.gids]

decode_data_qzip_as_zlib(node) ==
    IF node.encoding = "base64" THEN
        IF node.compression \in {None, Some("zlib"), Some("qzip")} THEN unpack_struct(node)
        ELSE [err |-> "UnsupportedCompression", data |-> <<>>]
    ELSE IF node.encoding = "csv" THEN [err |-> "", data |-> node.gids]
    ELSE [err |-> "UnsupportedEncoding", data |-> <<>>]

\* loader.py:386-404: the raw gids of the data node, or the exception raised
decode_data(node) ==
    IF node.encoding = "base64" THEN
        IF node.compression \in {None, Some("zlib")} THEN unpack_struct(node)
        ELSE IF node.compression = Some("qzip")
             THEN [err |-> "NotImplementedError", data |-> <<>>]
        ELSE [err |-> "UnsupportedCompression", data |-> <<>>]
    ELSE IF node.encoding = "csv" THEN [err |-> "", data |-> node.gids]
    ELSE [err |-> "UnsupportedEncoding", data |-> <<>>]

\* Cell(parent, gid, x, y, flags) (pixel positions are not part of the model)
Cell(gid, flags) == Some([gid |-> gid, flags |-> flags])

\* TileLayer.add_tile: get_tileset_by_gid may return None, whose add_tile
\* attribute does not exist
TileLayer_add_tile(w, gid) ==
    LET t == get_tileset_by_gid(w.tilesets, gid)
    IN IF t = 0 THEN Raise(w, "AttributeError") ELSE add_placeholder(w, t, gid)

\* TileLayer.add_cell: [w, cell]; cell is None for raw gid 0
TileLayer_add_cell(w, raw) ==
    IF raw = {} THEN [w |-> w, cell |-> None]
    ELSE LET d == decode_gid(raw)
             w1 == IF d.gid \notin DOMAIN w.tiles THEN TileLayer_add_tile(w, d.gid)
                   ELSE w
         IN [w |-> w1, cell |-> Cell(d.gid, d.flags)]

\* loader.py:411: the generator expression under tuple(), from its k-th slot
\* on (row-major: y outer, x inner).  next(data) on an exhausted iterator
\* raises StopIteration inside the generator, which ends it: tuple() keeps
\* the cells made so far.  s = [w, cells]
RECURSIVE fill_cells(_, _, _, _)
fill_cells(s, data, total, k) ==
    IF k > total \/ s.w.err # "" THEN s
    ELSE IF k > Len(data) THEN s
    ELSE LET made == TileLayer_add_cell(s.w, data[k])
         IN IF made.w.err # "" THEN [w |-> made.w, cells |-> s.cells]
            ELSE fill_cells([w |-> made.w, cells |-> Append(s.cells, made.cell)],
                            data, total, k + 1)

LayerRecord(kind, width, height, data, objects, source) ==
    [kind |-> kind, width |-> width, height |-> height, data |-> data,
     objects |-> objects, source |-> source, image |-> None]

\* TileLayer.__init__ and init_from_node: [w, layer]
TileLayer_new(w, node) ==
    LET decoded == decode_data(node)
        filled == fill_cells([w |-> w, cells |-> <<>>], decoded.data,
                             node.width * node.height, 1)
    IN IF decoded.err # "" THEN [w |-> Raise(w, decoded.err), layer |-> None]
       ELSE IF filled.w.err # "" THEN [w |-> filled.w, layer |-> None]
       ELSE [w |-> filled.w,
             layer |-> Some(LayerRecord("layer", node.width, node.height,
                                        filled.cells, <<>>, None))]

(***************************************************************************)
(* loader.py: ObjectGroup and ObjectElement.  An object node is            *)
(* [gid]: None, or the raw gid of its gid attribute.                       *)
(***************************************************************************)
\* ObjectElement.__init__ with prepare_attr_gid: [w, object]
ObjectElement_new(w, node) ==
    IF node.gid = None
    THEN [w |-> w, object |-> [type |-> "rectangle", gid |-> None, flags |-> None]]
    ELSE LET d == decode_gid(node.gid[1])
             t == get_tileset_by_gid(w.tilesets, d.gid)
             w1 == IF d.gid \in DOMAIN w.tiles THEN w
                   ELSE IF t = 0 THEN Raise(w, "AttributeError")
                   ELSE add_placeholder(w, t, d.gid)
         IN [w |-> w1,
             object |-> [type |-> "tile", gid |-> Some(d.gid), flags |-> Some(d.flags)]]

\* ObjectGroup.init_from_node's loop over the object nodes; s = [w, objects]
RECURSIVE add_objects(_, _, _)
add_objects(s, object_nodes, i) ==
    IF i > Len(object_nodes) \/ s.w.err # "" THEN s
    ELSE LET made == ObjectElement_new(s.w, object_nodes[i])
         IN IF made.w.err # "" THEN [w |-> made.w, objects |-> s.objects]
            ELSE add_objects([w |-> made.w, objects |-> Append(s.objects, made.object)],
                             object_nodes, i + 1)

\* ObjectGroup.__init__: [w, layer]
ObjectGroup_new(w, node) ==
    LET made == add_objects([w |-> w, objects |-> <<>>], node.objects, 1)
    IN IF made.w.err # "" THEN [w |-> made.w, layer |-> None]
       ELSE [w |-> made.w,
             layer |-> Some(LayerRecord("objectgroup", 0, 0, <<>>, made.objects, None))]

\* ImageLayer.__init__: the source of its image node
ImageLayer_new(node) == LayerRecord("imagelayer", 0, 0, <<>>, <<>>, Some(node.source))

(***************************************************************************)
(* loader.py: TileMap.load_images.  The image loader is the caller's: the  *)
(* model records each call of it in `log` and stores an opaque handle.     *)
(*   [ev |-> "resolver", ...]  load_image(tileset=..) or (image_layer=..)  *)
(*   [ev |-> "image", ...]     loader(tile=tile), or loader() (tile None)  *)
(*   [ev |-> "add", ...]       a gid that load_images adds to the registry *)
(***************************************************************************)
invert_tileset_y == FALSE

Event(ev, t, l, tile) == [ev |-> ev, tileset |-> t, layer |-> l, tile |-> tile]
Handle(t, l) == Some([tileset |-> t, layer |-> l])

\* xrange(start, stop, step) for step > 0, as the sequence of its values
XRange(start, stop, step) ==
    LET n == IF stop > start THEN (stop - start + step - 1) \div step ELSE 0
    IN [k \in 1..n |-> start + (k - 1) * step]

\* itertools.product(ys, xs): the pairs in order, ys outer
Product(ys, xs) ==
    [k \in 1..(Len(ys) * Len(xs)) |->
        <<ys[((k - 1) \div Len(xs)) + 1], xs[((k - 1) % Len(xs)) + 1]>>]

\* TileElement.set_uvs
set_uvs(tile, uvs) ==
    [tile EXCEPT !.uvs = IF invert_tileset_y THEN Some(<<uvs[1], tile.height - uvs[2]>>)
                         ELSE Some(uvs)]

\* TileSet.__iter__: the gids whose tiles it yields, before the KeyError test
TileSet_iter(tss, ti, t) == XRange(tss[t].firstgid, tss[t].firstgid + tss[t].maxgid, 1)

\* loader.py:601-602: the image-collection loop from the k-th gid on; s = [w, log]
RECURSIVE load_collection(_, _, _, _)
load_collection(s, t, gids, k) ==
    IF k > Len(gids) THEN s
    ELSE IF gids[k] \notin DOMAIN s.w.tiles THEN load_collection(s, t, gids, k + 1)
    ELSE load_collection(
            [w |-> [s.w EXCEPT !.tiles[gids[k]].image = Handle(t, 0)],
             log |-> Append(s.log, Event("image", t, 0, Some(gids[k])))],
            t, gids, k + 1)

\* loader.py:610-618: the atlas loop from the k-th rect on; s = [w, log]
RECURSIVE load_atlas(_, _, _, _, _)
load_atlas(s, t, rects, unused, k) ==
    IF k > Len(rects) THEN s
    ELSE LET gid == s.w.tilesets[t].firstgid + (k - 1)
             y == rects[k][1]
             x == rects[k][2]
             known == gid \in DOMAIN s.w.tiles
             w1 == IF known THEN s.w ELSE add_placeholder(s.w, t, gid)
             log1 == IF known THEN s.log
                     ELSE Append(s.log, Event("add", t, 0, Some(gid)))
             w2 == [w1 EXCEPT !.tiles[gid] =
                        [set_uvs(@, <<x, y>>) EXCEPT !.image = Handle(t, 0)]]
         IN IF ~known /\ ~unused THEN load_atlas(s, t, rects, unused, k + 1)
            ELSE load_atlas([w |-> w2,
                             log |-> Append(log1, Event("image", t, 0, Some(gid)))],
                            t, rects, unused, k + 1)

\* loader.py:606-609: reversed_uvs_product
atlas_rects(ts) ==
    Product(XRange(ts.margin, ts.height + 1 - ts.tileheight, ts.tileheight + ts.spacing),
            XRange(ts.margin, ts.width + 1 - ts.tilewidth, ts.tilewidth + ts.spacing))

load_images_tileset_eager(s, t, unused) ==
    LET s1 == [w |-> s.w, log |-> Append(s.log, Event("resolver", t, 0, None))]
    IN IF is_images_collection(s.w.tilesets[t])
       THEN load_collection(s1, t, TileSet_iter(s.w.tilesets, s.w.tiles, t), 1)
       ELSE load_atlas(s1, t, atlas_rects(s.w.tilesets[t]), TRUE, 1)

load_images_tileset_shared(s, t, unused) ==
    LET s1 == [w |-> s.w, log |-> Append(s.log, Event("resolver", t, 0, None))]
    IN IF is_images_collection(s.w.tilesets[t])
       THEN load_collection(s1, t, TileSet_iter(s.w.tilesets, s.w.tiles, t), 1)
       ELSE [w |-> s.w, log |-> Append(s1.log, Event("image", t, 0, None))]

\* loader.py:598-618: one pass of the loop over the tilesets; s = [w, log]
load_images_tileset(s, t, unused) ==
    LET s1 == [w |-> s.w, log |-> Append(s.log, Event("resolver", t, 0, None))]
    IN IF is_images_collection(s.w.tilesets[t])
       THEN load_collection(s1, t, TileSet_iter(s.w.tilesets, s.w.tiles, t), 1)
       ELSE load_atlas(s1, t, atlas_rects(s.w.tilesets[t]), unused, 1)

\* loader.py:620-622: the loop over get_image_layers() from layer l on;
\* s = [layers, log]
RECURSIVE load_image_layers(_, _)
load_image_layers(s, l) ==
    IF l > Len(s.layers) THEN s
    ELSE IF s.layers[l].kind # "imagelayer" THEN load_image_layers(s, l + 1)
    ELSE load_image_layers(
            [layers |-> [s.layers EXCEPT ![l].image = Handle(0, l)],
             log |-> s.log \o <<Event("resolver", 0, l, None),
                                Event("image", 0, l, None)>>],
            l + 1)

(***************************************************************************)
(* The documents of the model.                                             *)
(***************************************************************************)
\* utils.py: LayerType
LayerType == {"layer", "imagelayer", "objectgroup"}

\* the tags of the root's children: tilesets, layers, and "group" (a tag
\* LayerType does not hold)
Tags == {"tileset"} \cup LayerType \cup {"group"}

SeqsUpTo(S, n) == UNION {[1..k -> S] : k \in 0..n}

AtlasImage == [source |-> "atlas.png", width |-> 2, height |-> 3]
TileImage == [source |-> "tile.png", width |-> 4, height |-> 5]

\* plain tile nodes, with an image node of their own
TileNodes ==
    {[id |-> i, properties |-> None, animation |-> None, image |-> Some(TileImage)] :
        i \in LocalIds}

\* an atlas (a shared image, its tiles not declared) or an image collection
\* (no shared image, one tile node)
TilesetNodes ==
    {[firstgid |-> f, tilewidth |-> tw, tileheight |-> th, image |-> Some(AtlasImage),
      tiles |-> <<>>] : f \in FirstGids, tw \in TileWidths, th \in TileHeights}
    \cup {[firstgid |-> f, tilewidth |-> tw, tileheight |-> th, image |-> None,
           tiles |-> <<tn>>] :
            f \in FirstGids, tw \in TileWidths, th \in TileHeights, tn \in TileNodes}

RawGids == {ToWord(0), ToWord(1), ToWord(2) \cup FLIPPED_HORIZONTALLY_FLAG}

DataNodes ==
    {[encoding |-> "csv", compression |-> None, tail |-> 0],
     [encoding |-> "json", compression |-> None, tail |-> 0]}
    \cup {[encoding |-> "base64", compression |-> c, tail |-> 0] :
            c \in {None, Some("zlib"), Some("qzip"), Some("zstd")}}
    \cup {[encoding |-> "base64", compression |-> None, tail |-> 1]}

TileLayerNodes ==
    {[width |-> w, height |-> h, encoding |-> d.encoding,
      compression |-> d.compression, tail |-> d.tail, gids |-> g] :
        w \in LayerWidths, h \in LayerHeights, d \in DataNodes,
        g \in UNION {[1..k -> RawGids] : k \in PayloadLengths}}

ObjectNodes == {[gid |-> None]} \cup {[gid |-> Some(r)] : r \in RawGids}

ObjectGroupNodes ==
    {[objects |-> os] : os \in UNION {[1..k -> ObjectNodes] : k \in ObjectCounts}}

ImageLayerNodes == {[source |-> "backdrop.png"]}

(***************************************************************************)
(* The load: TileMap.__init__, load_map_data and init_from_node.           *)
(***************************************************************************)
\* node.findall('tileset')
tileset_nodes(d) == {i \in 1..Len(d) : d[i] = "tileset"}

LoadInit ==
    /\ doc \in SeqsUpTo(Tags, MaxNodes)
    /\ load_unused_tiles \in BOOLEAN
    /\ pc = "load"
    /\ err = ""
    /\ tilesets = <<>>
    /\ tiles = <<>>
    /\ layers = <<>>
    /\ walked = 0
    /\ imaged = 0
    /\ log = <<>>

\* an exception leaves the load: what the handler wrote to the registry stays
Fail(w) ==
    /\ pc' = "failed"
    /\ err' = w.err
    /\ tiles' = w.tiles
    /\ UNCHANGED <<doc, load_unused_tiles, tilesets, layers, walked, imaged, log>>

\* loader.py:570-571 and TileMap.add_tileset: the next tileset node
add_tileset(node) ==
    /\ pc = "load"
    /\ Len(tilesets) < Cardinality(tileset_nodes(doc))
    /\ LET w == TileSet_new(World(tiles, tilesets, ""), node)
       IN IF w.err # "" THEN Fail(w)
          ELSE /\ tiles' = w.tiles
               /\ tilesets' = w.tilesets
               /\ UNCHANGED <<doc, load_unused_tiles, pc, err, layers, walked, imaged, log>>

\* the loop at loader.py:573 is at its next child, whose tag is in `tags`
AtChild(tags) ==
    /\ pc = "load"
    /\ Len(tilesets) = Cardinality(tileset_nodes(doc))
    /\ walked < Len(doc)
    /\ doc[walked + 1] \in tags

Prepended(made) ==
    IF made.w.err # "" THEN Fail(made.w)
    ELSE /\ tiles' = made.w.tiles
         /\ tilesets' = made.w.tilesets
         /\ layers' = made.layer \o layers
         /\ walked' = walked + 1
         /\ UNCHANGED <<doc, load_unused_tiles, pc, err, imaged, log>>

\* TileMap.add_layer's append of a constructed layer
Appended(made) ==
    IF made.w.err # "" THEN Fail(made.w)
    ELSE /\ tiles' = made.w.tiles
         /\ tilesets' = made.w.tilesets
         /\ layers' = layers \o made.layer
         /\ walked' = walked + 1
         /\ UNCHANGED <<doc, load_unused_tiles, pc, err, imaged, log>>

\* loader.py:573-576 and TileMap.add_layer, for a child whose tag is in LayerType
add_layer(tag, node) ==
    /\ AtChild({tag})
    /\ IF tag = "layer" THEN Appended(TileLayer_new(World(tiles, tilesets, ""), node))
       ELSE IF tag = "imagelayer"
            THEN Appended([w |-> World(tiles, tilesets, ""),
                           layer |-> Some(ImageLayer_new(node))])
       ELSE IF tag = "objectgroup"
            THEN Appended(ObjectGroup_new(World(tiles, tilesets, ""), node))
       ELSE Fail(World(tiles, tilesets, "UnknownLayerKind"))

add_tile_layer == \E node \in TileLayerNodes : add_layer("layer", node)
add_image_layer == \E node \in ImageLayerNodes : add_layer("imagelayer", node)
add_object_group == \E node \in ObjectGroupNodes : add_layer("objectgroup", node)

\* loader.py:575: a child whose tag is not in LayerType is passed over
skip_child ==
    /\ AtChild(Tags \ LayerType)
    /\ walked' = walked + 1
    /\ UNCHANGED <<doc, load_unused_tiles, pc, err, tilesets, tiles, layers, imaged, log>>

\* load_images has been called: every tileset and every child is done
InLoadImages ==
    /\ pc = "load"
    /\ Len(tilesets) = Cardinality(tileset_nodes(doc))
    /\ walked = Len(doc)

\* loader.py:598-618: the next pass of the loop over the tilesets
load_images_next_tileset ==
    /\ InLoadImages
    /\ imaged < Len(tilesets)
    /\ LET s == load_images_tileset([w |-> World(tiles, tilesets, ""), log |-> log],
                                    imaged + 1, load_unused_tiles)
       IN /\ tiles' = s.w.tiles
          /\ tilesets' = s.w.tilesets
          /\ log' = s.log
    /\ imaged' = imaged + 1
    /\ UNCHANGED <<doc, load_unused_tiles, pc, err, layers, walked>>

\* loader.py:620-622: the image layers, and the load returns
load_images_layers ==
    /\ InLoadImages
    /\ imaged = Len(tilesets)
    /\ LET s == load_image_layers([layers |-> layers, log |-> log], 1)
       IN /\ layers' = s.layers
          /\ log' = s.log
    /\ pc' = "done"
    /\ UNCHANGED <<doc, load_unused_tiles, err, tilesets, tiles, walked, imaged>>

NoOp == [op |-> "", names |-> {}, before |-> <<>>, err |-> ""]
NoArgs == [id |-> 0, h |-> FALSE, v |-> FALSE, d |-> FALSE]
NoMap == [width |-> 0, height |-> 0, tilewidth |-> 0, tileheight |-> 0]

BagIdle == properties = <<>> /\ propOp = NoOp
GidIdle == gidArgs = NoArgs /\ gidOut = None
LookupIdle == lookupGid = None /\ lookupResult = 0
PosIdle == invert_y = TRUE /\ mapAttrs = NoMap /\ posOut = None

Init == LoadInit /\ BagIdle /\ GidIdle /\ LookupIdle /\ PosIdle

Next ==
    \/ (\E node \in TilesetNodes : add_tileset(node))
            /\ UNCHANGED <<bagVars, gidVars, lookupVars, posVars>>
    \/ add_tile_layer /\ UNCHANGED <<bagVars, gidVars, lookupVars, posVars>>
    \/ add_image_layer /\ UNCHANGED <<bagVars, gidVars, lookupVars, posVars>>
    \/ add_object_group /\ UNCHANGED <<bagVars, gidVars, lookupVars, posVars>>
    \/ skip_child /\ UNCHANGED <<bagVars, gidVars, lookupVars, posVars>>
    \/ load_images_next_tileset /\ UNCHANGED <<bagVars, gidVars, lookupVars, posVars>>
    \/ load_images_layers /\ UNCHANGED <<bagVars, gidVars, lookupVars, posVars>>

Spec == Init /\ [][Next]_vars

(***************************************************************************)
(* SpecProps: the property operations, called in any order on the bag of   *)
(* one tile element (the only entity with all three of them).  The element *)
(* is the declared tile of an image collection with firstgid 1.            *)
(***************************************************************************)
PropNames == {"animation_frames", "speed"}
PropValues == {"1", "2"}
PropertyNodes == {[name |-> n, value |-> v] : n \in PropNames, v \in PropValues}
FrameNodes == {[tileid |-> 1, duration |-> 100]}

BagWorld ==
    TileSet_new(World(<<>>, <<>>, ""),
                [firstgid |-> 1, tilewidth |-> 1, tileheight |-> 3, image |-> None,
                 tiles |-> <<[id |-> 0, properties |-> None, animation |-> None,
                              image |-> Some(TileImage)]>>])

BagInit ==
    /\ doc = <<>>
    /\ load_unused_tiles = FALSE
    /\ pc = "idle"
    /\ err = ""
    /\ tilesets = BagWorld.tilesets
    /\ tiles = BagWorld.tiles
    /\ layers = <<>>
    /\ walked = 0
    /\ imaged = 0
    /\ log = <<>>
    /\ BagIdle /\ GidIdle /\ LookupIdle /\ PosIdle

BagFrame == UNCHANGED <<doc, load_unused_tiles, pc, err, layers, walked, imaged, log,
                        gidVars, lookupVars, posVars>>

\* element.set_property(name, value)
set_property(name, value) ==
    /\ properties' = Element_set_property(properties, name, StrValue(value))
    /\ propOp' = [op |-> "set_property", names |-> {name}, before |-> properties,
                  err |-> ""]
    /\ UNCHANGED <<tiles, tilesets>>
    /\ BagFrame

\* element.set_properties_from_node(properties_node)
set_properties_from_node(children) ==
    /\ LET r == Element_set_properties_from_node(properties, Some(children))
       IN /\ properties' = r.properties
          /\ propOp' = [op |-> "set_properties_from_node",
                        names |-> {children[i].name : i \in 1..Len(children)},
                        before |-> properties, err |-> r.err]
    /\ UNCHANGED <<tiles, tilesets>>
    /\ BagFrame

\* element.handle_animation(animation_node); it sets out to set
\* animation_frames only if the loop over the frames raises nothing
handle_animation(frame_nodes) ==
    /\ LET r == TileElement_handle_animation(World(tiles, tilesets, ""), 1, properties,
                                             frame_nodes)
       IN /\ properties' = r.properties
          /\ tiles' = r.w.tiles
          /\ tilesets' = r.w.tilesets
          /\ propOp' = [op |-> "handle_animation",
                        names |-> IF r.w.err = "" THEN {"animation_frames"} ELSE {},
                        before |-> properties, err |-> r.w.err]
    /\ BagFrame

BagNext ==
    \/ \E n \in PropNames, v \in PropValues : set_property(n, v)
    \/ \E children \in SeqsUpTo(PropertyNodes, 2) : set_properties_from_node(children)
    \/ \E frame_nodes \in SeqsUpTo(FrameNodes, 1) : handle_animation(frame_nodes)

SpecProps == BagInit /\ [][BagNext]_vars

(***************************************************************************)
(* SpecGid: decode_gid applied to the raw gid id | h | v | d.              *)
(***************************************************************************)
IdSamples == (0..MaxSample) \cup {Pow2(29) - 1 - k : k \in 0..MaxSample}

\* id | h * 0x80000000 | v * 0x40000000 | d * 0x20000000
Encode(a) ==
    ToWord(a.id) \cup (IF a.h THEN FLIPPED_HORIZONTALLY_FLAG ELSE {})
                 \cup (IF a.v THEN FLIPPED_VERTICALLY_FLAG ELSE {})
                 \cup (IF a.d THEN FLIPPED_DIAGONALLY_FLAG ELSE {})

IdleLoad ==
    /\ doc = <<>>
    /\ load_unused_tiles = FALSE
    /\ pc = "idle"
    /\ err = ""
    /\ tiles = <<>>
    /\ layers = <<>>
    /\ walked = 0
    /\ imaged = 0
    /\ log = <<>>

GidInit ==
    /\ IdleLoad /\ tilesets = <<>>
    /\ BagIdle /\ LookupIdle /\ PosIdle
    /\ gidArgs \in [id : IdSamples, h : BOOLEAN, v : BOOLEAN, d : BOOLEAN]
    /\ gidOut = None

decode ==
    /\ gidOut = None
    /\ gidOut' = Some(decode_gid(Encode(gidArgs)))
    /\ UNCHANGED <<loadVars, bagVars, lookupVars, posVars, gidArgs>>

GidNext == decode

SpecGid == GidInit /\ [][GidNext]_vars

(***************************************************************************)
(* SpecLookup: get_tileset_by_gid applied to a list of tilesets, built by  *)
(* TileMap.add_tileset from tileset nodes with any firstgids.              *)
(***************************************************************************)
LookupNode(f) == [firstgid |-> f, tilewidth |-> 1, tileheight |-> 3,
                  image |-> Some(AtlasImage), tiles |-> <<>>]

RECURSIVE LookupTilesets(_, _, _)
LookupTilesets(w, fs, i) ==
    IF i > Len(fs) THEN w.tilesets
    ELSE LookupTilesets(TileSet_new(w, LookupNode(fs[i])), fs, i + 1)

LookupInit ==
    /\ IdleLoad
    /\ tilesets \in {LookupTilesets(World(<<>>, <<>>, ""), fs, 1) :
                        fs \in SeqsUpTo(FirstGids, MaxTilesets)}
    /\ BagIdle /\ GidIdle /\ LookupIdle /\ PosIdle

lookup ==
    /\ \E gid \in 0..MaxLookupGid :
        /\ lookupGid' = Some(gid)
        /\ lookupResult' = get_tileset_by_gid(tilesets, gid)
    /\ UNCHANGED <<loadVars, bagVars, gidVars, posVars>>

LookupNext == lookup

SpecLookup == LookupInit /\ [][LookupNext]_vars

(***************************************************************************)
(* SpecPos: the y of an object element and the offsety of an image layer,  *)
(* constructed in a map whose attributes are set.  An attribute of a node  *)
(* is None or Some(text), a text being the sequence of its decimal digits; *)
(* a Python value is a number or a string.                                 *)
(***************************************************************************)
Number(n) == [kind |-> "number", n |-> n, text |-> <<>>]
String(s) == [kind |-> "str", n |-> 0, text |-> s]

\* the text a document holds for a number, most significant digit first
RECURSIVE Digits(_)
Digits(n) == IF n < 10 THEN <<n>> ELSE Append(Digits(n \div 10), n % 10)

\* int(text) and float(text), for a text of decimal digits
RECURSIVE ParseNumber(_)
ParseNumber(text) ==
    IF text = <<>> THEN 0
    ELSE 10 * ParseNumber(SubSeq(text, 1, Len(text) - 1)) + text[Len(text)]

\* utils.py: PROPERTIES_TYPES, a defaultdict whose default is str (the entry
\* of visible, convert_to_bool, is left out: no node of the model has it)
PROPERTIES_TYPES(name) ==
    CASE name \in {"firstgid", "gid", "height", "id", "margin", "spacing", "tilecount",
                   "tileheight", "tilewidth", "width", "tileid", "duration"} -> "int"
      [] name \in {"opacity", "rotation", "version", "x", "y"} -> "float"
      [] OTHER -> "str"

\* utils.py: to_python
to_python(property_name, value) ==
    IF PROPERTIES_TYPES(property_name) \in {"int", "float"}
    THEN Number(ParseNumber(value))
    ELSE String(value)

\* Python's a - b for an int a: a number if b is one, TypeError if b is a str
Minus(a, b) ==
    IF b.kind = "number" THEN [err |-> "", value |-> Number(a - b.n)]
    ELSE [err |-> "TypeError", value |-> b]

\* TileMap.size
TileMap_size(m) == <<m.width * m.tilewidth, m.height * m.tileheight>>

prepare_attr_y_not_inverted(m, inv, y) == [err |-> "", value |-> y]

\* ObjectElement.prepare_attr_y: [err, value]
prepare_attr_y(m, inv, y) ==
    IF inv THEN Minus(TileMap_size(m)[2], y) ELSE [err |-> "", value |-> y]

\* ImageLayer.prepare_attr_offsety: [err, value]
prepare_attr_offsety(m, inv, offsety) ==
    IF inv THEN Minus(TileMap_size(m)[2], offsety) ELSE [err |-> "", value |-> offsety]

\* ObjectElement.__init__, as far as self.y goes: loader.py:106, then
\* Element.set_attr('y', text) if the node has the attribute
ObjectElement_y(m, inv, node) ==
    LET default == prepare_attr_y(m, inv, Number(0))
    IN IF node.y = None THEN default
       ELSE prepare_attr_y(m, inv, to_python("y", node.y[1]))

\* ImageLayer.__init__, as far as self.offsety goes: loader.py:217, then
\* Element.set_attr('offsety', text) if the node has the attribute
ImageLayer_offsety(m, inv, node) ==
    LET default == prepare_attr_offsety(m, inv, Number(0))
    IN IF node.offsety = None THEN default
       ELSE prepare_attr_offsety(m, inv, to_python("offsety", node.offsety[1]))

\* what a node declares: nothing, or the number whose text the attribute holds
Declared == {None} \cup {Some(n) : n \in 0..MaxCoord}
AttrText(declared) == IF declared = None THEN None ELSE Some(Digits(declared[1]))

\* TileMap.init_from_node sets the map's attributes from the root node
\* before it constructs any child
PosInit ==
    /\ IdleLoad /\ tilesets = <<>>
    /\ BagIdle /\ GidIdle /\ LookupIdle
    /\ invert_y \in BOOLEAN
    /\ \E h \in 0..MaxMapHeight, th \in MapTileHeights :
            mapAttrs = [width |-> to_python("width", Digits(1)).n,
                        height |-> to_python("height", Digits(h)).n,
                        tilewidth |-> to_python("tilewidth", Digits(1)).n,
                        tileheight |-> to_python("tileheight", Digits(th)).n]
    /\ posOut = None

Constructed(kind, declared, r) ==
    /\ posOut' = Some([kind |-> kind, declared |-> declared, stored |-> r.value,
                       err |-> r.err])
    /\ UNCHANGED <<loadVars, bagVars, gidVars, lookupVars, invert_y, mapAttrs>>

\* ObjectGroup.add_object: an object element is constructed
construct_object ==
    \E declared \in Declared :
        Constructed("object", declared,
                    ObjectElement_y(mapAttrs, invert_y, [y |-> AttrText(declared)]))

\* TileMap.add_layer: an image layer is constructed
construct_image_layer ==
    \E declared \in Declared :
        Constructed("imagelayer", declared,
                    ImageLayer_offsety(mapAttrs, invert_y,
                                       [offsety |-> AttrText(declared)]))

PosNext == construct_object \/ construct_image_layer

SpecPos == PosInit /\ [][PosNext]_vars

(***************************************************************************)
(* SpecAnim: the load of a map whose children are image-collection         *)
(* tilesets, each with one tile node that may declare an animation.        *)
(***************************************************************************)
FrameTileIds == {0, 1}          \* tileid of a frame node
FrameDurations == {100, 200}    \* duration of a frame node
AnimDocs == {<<"tileset">>, <<"tileset", "tileset">>}

AnimFrameNodes == {[tileid |-> i, duration |-> d] : i \in FrameTileIds, d \in FrameDurations}

\* node.find('animation'): None, or the frame nodes of the animation node
Animations == {None} \cup {Some(fs) : fs \in SeqsUpTo(AnimFrameNodes, MaxFrames)}

AnimatedTileNodes ==
    {[id |-> i, properties |-> None, animation |-> a, image |-> Some(TileImage)] :
        i \in LocalIds, a \in Animations}

AnimatedTilesetNodes ==
    {[firstgid |-> f, tilewidth |-> tw, tileheight |-> th, image |-> None,
      tiles |-> <<tn>>] :
        f \in FirstGids, tw \in TileWidths, th \in TileHeights, tn \in AnimatedTileNodes}

AnimInit ==
    /\ doc \in AnimDocs
    /\ load_unused_tiles = FALSE
    /\ pc = "load"
    /\ err = ""
    /\ tilesets = <<>>
    /\ tiles = <<>>
    /\ layers = <<>>
    /\ walked = 0
    /\ imaged = 0
    /\ log = <<>>
    /\ BagIdle /\ GidIdle /\ LookupIdle /\ PosIdle

add_animated_tileset == \E node \in AnimatedTilesetNodes : add_tileset(node)

AnimNext ==
    \/ add_animated_tileset /\ UNCHANGED <<bagVars, gidVars, lookupVars, posVars>>
    \/ skip_child /\ UNCHANGED <<bagVars, gidVars, lookupVars, posVars>>
    \/ load_images_next_tileset /\ UNCHANGED <<bagVars, gidVars, lookupVars, posVars>>
    \/ load_images_layers /\ UNCHANGED <<bagVars, gidVars, lookupVars, posVars>>

SpecAnim == AnimInit /\ [][AnimNext]_vars

(***************************************************************************)
(* The claims.                                                             *)
(***************************************************************************)
TileLayers == {l \in 1..Len(layers) : layers[l].kind = "layer"}
Atlases == {t \in 1..Len(tilesets) : ~is_images_collection(tilesets[t])}
Collections == {t \in 1..Len(tilesets) : is_images_collection(tilesets[t])}

\* the gids the cells and the objects of the layers refer to
CellGids ==
    UNION {{layers[l].data[k][1].gid :
                k \in {c \in 1..Len(layers[l].data) : layers[l].data[c] # None}} :
           l \in 1..Len(layers)}
ObjectGids ==
    UNION {{layers[l].objects[k].gid[1] :
                k \in {o \in 1..Len(layers[l].objects) : layers[l].objects[o].gid # None}} :
           l \in 1..Len(layers)}

\* how often loader(tile=tiles[g]) was called with the loader of tileset t
ImageCalls(t, g) == Cardinality({i \in 1..Len(log) : log[i] = Event("image", t, 0, Some(g))})
ResolverCalls(t) == Cardinality({i \in 1..Len(log) : log[i] = Event("resolver", t, 0, None)})

\* the gids that load_images enumerates for the rects of atlas t
AtlasGids(t) == {tilesets[t].firstgid + (k - 1) : k \in 1..Len(atlas_rects(tilesets[t]))}

\* C1 (as claimed): every constructed tile layer has exactly width * height
\* slots in its data, whatever its payload holds.
C1_DataHasWidthTimesHeightSlots ==
    \A l \in TileLayers : Len(layers[l].data) = layers[l].width * layers[l].height

\* C2: when a load completes, every gid a cell or an object refers to is a
\* key of the registry, and a tile no tile node declared has that gid and
\* the tilewidth and tileheight of get_tileset_by_gid(gid).
C2_ReferencedGidsRegistered ==
    pc = "done" =>
        \A G \in CellGids \cup ObjectGids :
            /\ G \in DOMAIN tiles
            /\ ~tiles[G].declared =>
                LET t == get_tileset_by_gid(tilesets, G)
                IN /\ t # 0
                   /\ tiles[G].gid = G
                   /\ tiles[G].width = tilesets[t].tilewidth
                   /\ tiles[G].height = tilesets[t].tileheight

C2_Witness ==
    /\ pc = "done"
    /\ \E G \in CellGids : ~tiles[G].declared
    /\ \E l \in TileLayers : \E k \in 1..Len(layers[l].data) :
            layers[l].data[k] # None /\ layers[l].data[k][1].flags[1]

\* C3, first half: an image is requested only once every tileset and every
\* layer is constructed.
C3_AfterConstruction ==
    log # <<>> => /\ Len(tilesets) = Cardinality(tileset_nodes(doc))
                  /\ walked = Len(doc)

\* C3 (as claimed): for either value of load_unused_tiles the first image
\* is requested after construction, and no gid is added to the registry after
\* that first request (read as the first call loader(tile=..), the reading
\* that leaves the resolver the most room).
C3_NoGidAfterFirstRequest ==
    /\ C3_AfterConstruction
    /\ \A i, j \in 1..Len(log) : (i < j /\ log[i].ev = "image") => log[j].ev # "add"

\* C3 (amended): the first resolver call comes after construction; with
\* load_unused_tiles false the registry gets no gid after it; with
\* load_unused_tiles true the only gids added are rects of an atlas no tile
\* was registered for, each added just before its own image is requested.
C3_NoGidAfterFirstRequestUnlessUnused ==
    /\ C3_AfterConstruction
    /\ ~load_unused_tiles => \A i \in 1..Len(log) : log[i].ev # "add"
    /\ \A i \in 1..Len(log) :
            log[i].ev = "add" =>
                /\ log[i].tileset \in Atlases
                /\ log[i].tile[1] \in AtlasGids(log[i].tileset)
                /\ i < Len(log)
                /\ log[i + 1] = Event("image", log[i].tileset, 0, log[i].tile)

C3_Witness ==
    /\ pc = "done"
    /\ ~load_unused_tiles
    /\ \E t \in Atlases : AtlasGids(t) \ DOMAIN tiles # {}
    /\ \E i \in 1..Len(log) : log[i].ev = "image" /\ log[i].tileset \in Atlases

\* the tilesets own disjoint gid ranges: firstgids strictly ascending, every
\* registered tile and every atlas rect within the range of its own tileset
DisjointGidRanges ==
    /\ \A i, j \in 1..Len(tilesets) : i < j => tilesets[i].firstgid < tilesets[j].firstgid
    /\ \A g \in DOMAIN tiles : get_tileset_by_gid(tilesets, g) = tiles[g].parent
    /\ \A t \in Atlases : \A g \in AtlasGids(t) : get_tileset_by_gid(tilesets, g) = t

\* C4 (as claimed): in the image pass of a map whose tilesets own disjoint
\* gid ranges, the loader of an image collection is called once for every
\* tile that tileset registered and for no tile of another tileset, so no
\* tile's image is requested twice.
C4_CollectionLoaderCalledForOwnTilesOnly ==
    (pc = "done" /\ DisjointGidRanges) =>
        /\ \A t \in Collections : \A g \in DOMAIN tiles :
                ImageCalls(t, g) = IF tiles[g].parent = t THEN 1 ELSE 0
        /\ \A g \in DOMAIN tiles :
                Cardinality({i \in 1..Len(log) :
                                log[i].ev = "image" /\ log[i].tile = Some(g)}) <= 1

\* C5 (as claimed): for an atlas the image-returning function is called
\* exactly once, without a tile argument, however many tiles are registered.
C5_AtlasLoaderCalledOnceWithoutTile ==
    pc = "done" =>
        \A t \in Atlases :
            /\ Cardinality({i \in 1..Len(log) : log[i] = Event("image", t, 0, None)}) = 1
            /\ \A i \in 1..Len(log) :
                    (log[i].ev = "image" /\ log[i].tileset = t) => log[i].tile = None

\* C5 (amended): for an atlas load_image(tileset=..) is called exactly once,
\* and the function it returns is called once for every rect of the atlas
\* whose gid has a registered tile (every rect when load_unused_tiles), each
\* time with that tile as its argument and never without one.
C5_AtlasLoaderCalledOncePerRegisteredRect ==
    pc = "done" =>
        \A t \in Atlases :
            /\ ResolverCalls(t) = 1
            /\ \A i \in 1..Len(log) :
                    (log[i].ev = "image" /\ log[i].tileset = t) =>
                        log[i].tile # None /\ log[i].tile[1] \in AtlasGids(t)
            /\ \A g \in AtlasGids(t) :
                    ImageCalls(t, g) = IF g \in DOMAIN tiles THEN 1 ELSE 0
            /\ load_unused_tiles => AtlasGids(t) \subseteq DOMAIN tiles

C5_Witness ==
    /\ pc = "done"
    /\ \E t \in Atlases :
            /\ Cardinality({g \in AtlasGids(t) : ImageCalls(t, g) = 1}) >= 2
            /\ ~load_unused_tiles

\* the tags of the first n children that are layer tags, in document order
LayerTags(n) == SelectSeq(SubSeq(doc, 1, n), LAMBDA tag : tag \in LayerType)
LayerKinds == [l \in 1..Len(layers) |-> layers[l].kind]

\* C6 (as claimed): the walk never gets past a child (tilesets aside) whose
\* tag is no layer tag: the load fails there with UnknownLayerKind; and the
\* layers are the recognized children in document order.
C6_UnknownTagFailsLoad ==
    /\ \A i \in 1..walked :
            doc[i] \notin (LayerType \cup {"tileset"}) =>
                pc = "failed" /\ err = "UnknownLayerKind"
    /\ LayerKinds = LayerTags(walked)

\* C6 (amended): a child whose tag is no layer tag is passed over: it adds
\* no layer and never fails the load, which visits every child before it
\* completes; the layers are the recognized children in document order.
C6_UnknownTagPassedOver ==
    /\ err # "UnknownLayerKind"
    /\ pc = "done" => walked = Len(doc)
    /\ LayerKinds = LayerTags(walked)

C6_Witness ==
    /\ pc = "done"
    /\ \E i \in 1..Len(doc) : doc[i] = "group"
    /\ Len(layers) >= 1

\* C7 (as claimed): a property operation that sets out to set a name the
\* bag already holds fails with DuplicateProperty and leaves the value.
C7_SettingPresentNameFails ==
    \A n \in propOp.names :
        n \in DOMAIN propOp.before =>
            /\ propOp.err = "DuplicateProperty"
            /\ properties[n] = propOp.before[n]

\* C8: constructing a tile layer whose data node is base64 with compression
\* qzip raises NotImplementedError (the unsupported-compression failure of
\* loader.py:394-395) and leaves the registry exactly as it was.
QzipNodes ==
    {node \in TileLayerNodes : node.encoding = "base64" /\ node.compression = Some("qzip")}

C8_QzipFailsRegistryUntouched ==
    [][\A node \in QzipNodes :
            add_layer("layer", node) =>
                (pc' = "failed" /\ err' = "NotImplementedError" /\ tiles' = tiles)]_vars

C8_Witness ==
    /\ pc = "failed"
    /\ err = "NotImplementedError"
    /\ tiles # <<>>

\* C9: for tilesets in ascending firstgid order, get_tileset_by_gid returns
\* a tileset with the greatest firstgid <= gid, and None exactly when gid is
\* below every firstgid (so also when there is no tileset).
Ascending(tss) == \A i, j \in 1..Len(tss) : i <= j => tss[i].firstgid <= tss[j].firstgid

C9_GreatestFirstgidAtMostGid ==
    (lookupGid # None /\ Ascending(tilesets)) =>
        LET gid == lookupGid[1]
            r == lookupResult
        IN /\ r \in 0..Len(tilesets)
           /\ r = 0 <=> \A i \in 1..Len(tilesets) : gid < tilesets[i].firstgid
           /\ r # 0 => /\ tilesets[r].firstgid <= gid
                       /\ \A i \in 1..Len(tilesets) :
                            tilesets[i].firstgid <= gid =>
                                tilesets[i].firstgid <= tilesets[r].firstgid

C9_Witness ==
    /\ lookupGid # None
    /\ Ascending(tilesets)
    /\ Len(tilesets) = 3
    /\ lookupResult = 2
    /\ tilesets[1].firstgid < tilesets[2].firstgid
    /\ tilesets[3].firstgid > lookupGid[1]

\* C10: decode_gid returns an id with none of the three flag bits set, and
\* for the raw gid id | h | v | d it returns exactly (id, (h, v, d)).
C10_DecodeRoundTrip ==
    gidOut # None =>
        /\ ToWord(gidOut[1].gid) \cap (FLIPPED_HORIZONTALLY_FLAG \cup FLIPPED_VERTICALLY_FLAG
                                       \cup FLIPPED_DIAGONALLY_FLAG) = {}
        /\ gidOut[1].gid = gidArgs.id
        /\ gidOut[1].flags = <<gidArgs.h, gidArgs.v, gidArgs.d>>

C10_Witness ==
    /\ gidOut # None
    /\ gidArgs.id = Pow2(29) - 1
    /\ gidArgs.h /\ ~gidArgs.v /\ gidArgs.d

\* the pixel height of the map, and what a constructed node declared (0 if nothing)
PixelHeight == mapAttrs.height * mapAttrs.tileheight
DeclaredNumber == IF posOut[1].declared = None THEN 0 ELSE posOut[1].declared[1]

\* C11: an object element whose node declares y = Y stores H - Y when the
\* map inverts y and Y when it does not, H being height * tileheight; one
\* whose node declares no y stores the same function of 0.
C11_ObjectYInverted ==
    (posOut # None /\ posOut[1].kind = "object") =>
        /\ posOut[1].err = ""
        /\ posOut[1].stored = Number(IF invert_y THEN PixelHeight - DeclaredNumber
                                     ELSE DeclaredNumber)

C11_Witness ==
    /\ posOut # None /\ posOut[1].kind = "object"
    /\ invert_y
    /\ PixelHeight = 8
    /\ posOut[1].declared = Some(11)
    /\ posOut[1].stored = Number(0 - 3)

\* C12 (as claimed): an image layer whose node declares offsety = V is
\* constructed without an exception and stores the number H - V when the map
\* inverts y and the number V when it does not.
C12_OffsetyStoredAsNumber ==
    (posOut # None /\ posOut[1].kind = "imagelayer" /\ posOut[1].declared # None) =>
        /\ posOut[1].err = ""
        /\ posOut[1].stored = Number(IF invert_y THEN PixelHeight - DeclaredNumber
                                     ELSE DeclaredNumber)

\* the tileset nodes whose tile declares an animation of one frame or more,
\* and the frames the claim expects of such a node
AnimatedNodes ==
    {node \in AnimatedTilesetNodes :
        node.tiles[1].animation # None /\ Len(node.tiles[1].animation[1]) >= 1}
ExpectedFrames(node) ==
    [k \in 1..Len(node.tiles[1].animation[1]) |->
        [gid |-> node.firstgid + node.tiles[1].animation[1][k].tileid,
         duration |-> node.tiles[1].animation[1][k].duration]]

\* C13 (as claimed): constructing a tileset whose tile declares an animation
\* of n >= 1 frames raises nothing, and leaves the tile registered with
\* animation_frames the sequence of its n frames (gid = firstgid + tileid,
\* duration), every frame gid being a key of the registry.
C13_AnimatedTileLoads ==
    [][\A node \in AnimatedNodes :
            add_tileset(node) =>
                LET gid == node.firstgid + node.tiles[1].id
                IN /\ pc' = "load"
                   /\ gid \in DOMAIN tiles'
                   /\ "animation_frames" \in DOMAIN tiles'[gid].properties
                   /\ tiles'[gid].properties["animation_frames"]
                        = TupleValue(ExpectedFrames(node))
                   /\ \A k \in 1..Len(ExpectedFrames(node)) :
                        ExpectedFrames(node)[k].gid \in DOMAIN tiles']_vars
====
